---- MODULE Spec2Model ----
(***************************************************************************)
(* generate_mapping.py: build_mapping scans the rows of the first sheet of *)
(* a workbook and groups area names by police station; the script then     *)
(* writes the mapping to mapping.json and mapping.js and prints it.        *)
(*                                                                         *)
(* Text is modelled as a sequence of one-character strings, so that        *)
(* str.strip() and str.lower() are computed and not assumed.  A cell of    *)
(* the sheet is a record [t, s]: t is "none" (empty cell), "num" (a cell   *)
(* holding a number, i.e. not text) or "str", and s is the text.           *)
(*                                                                         *)
(* The rows of the sheet are fixed by the workbook.  The model reveals     *)
(* them one at a time: data_rows holds the rows the loop has reached so    *)
(* far (the title row has already been left out by min_row=2), and the     *)
(* sheet may end after any row.                                            *)
(***************************************************************************)
EXTENDS Integers, Sequences, FiniteSets

VARIABLES pc, data_rows, mapping, current_ps, raised, mapping_json, mapping_js, printed

vars == <<pc, data_rows, mapping, current_ps, raised, mapping_json, mapping_js, printed>>

(* Largest number of data rows below the header row. *)
MaxRows == 3

(* s_no, ps_s_no, sub_div, ps_name, area = row *)
NumCols == 5

---------------------------------------------------------------------------
(* Cells and text *)

None == [t |-> "none", s |-> <<>>]

Num == [t |-> "num", s |-> <<>>]

Str(s) == [t |-> "str", s |-> s]

isinstance_str(c) == c.t = "str"

IsSpace(ch) == ch \in {" ", "\t"}

LowerChar(ch) ==
  CASE ch = "A" -> "a"
    [] ch = "B" -> "b"
    [] ch = "P" -> "p"
    [] ch = "Q" -> "q"
    [] OTHER -> ch

RECURSIVE lstrip(_)
lstrip(s) ==
  IF s = <<>> THEN <<>>
  ELSE IF IsSpace(Head(s)) THEN lstrip(Tail(s))
  ELSE s

RECURSIVE rstrip(_)
rstrip(s) ==
  IF s = <<>> THEN <<>>
  ELSE IF IsSpace(s[Len(s)]) THEN rstrip(SubSeq(s, 1, Len(s) - 1))
  ELSE s

(* str.strip(): whitespace removed at both ends *)
strip(s) == rstrip(lstrip(s))

(* str.lower() *)
lower(s) == IF s = <<>> THEN <<>> ELSE [i \in 1..Len(s) |-> LowerChar(s[i])]

---------------------------------------------------------------------------
(* The sheet *)

(* Station cells: empty (a continuation row), a name written with trailing  *)
(* whitespace, a second name.  Area cells: empty, two areas, and the first   *)
(* area again in another case and with leading whitespace.                   *)
StationCells == {None, Str(<<"p", " ">>), Str(<<"q">>)}

AreaCells == {None, Str(<<"a">>), Str(<<" ", "A">>), Str(<<"b">>)}

MkRow(ps_name, area) == <<Num, Num, None, ps_name, area>>

(* Rows with a blank cell or a number where text is expected *)
OddRows ==
  { MkRow(Str(<<" ">>), Str(<<" ">>)),
    MkRow(Str(<<" ">>), Str(<<"a">>)),
    MkRow(Num, Str(<<"b">>)),
    MkRow(Str(<<"q">>), Num),
    MkRow(Str(<<"p", " ">>), Str(<<" ">>)) }

Rows == {MkRow(p, a) : p \in StationCells, a \in AreaCells} \cup OddRows

(* The row of column labels ("S.No", ..., "PS Name", "Area"): text in every  *)
(* column, here text that also occurs as data.                              *)
HeaderRow == <<Str(<<"a">>), Str(<<"a">>), Str(<<"a">>), Str(<<"q">>), Str(<<"b">>)>>

---------------------------------------------------------------------------
(* The dict: a sequence of entries in insertion order *)

Keys(m) == [i \in 1..Len(m) |-> m[i].ps]

HasKey(m, k) == \E i \in 1..Len(m) : m[i].ps = k

Get(m, k) == m[CHOOSE i \in 1..Len(m) : m[i].ps = k].areas

(* Faulty variants of setdefault: the key is not created; a key seen again is *)
(* given a fresh list.                                                       *)
setdefault_skipped(m, k) == m

setdefault_resets(m, k) ==
  IF HasKey(m, k)
  THEN [i \in 1..Len(m) |-> IF m[i].ps = k THEN [ps |-> k, areas |-> <<>>] ELSE m[i]]
  ELSE Append(m, [ps |-> k, areas |-> <<>>])

(* mapping.setdefault(k, []) *)
setdefault(m, k) == IF HasKey(m, k) THEN m ELSE Append(m, [ps |-> k, areas |-> <<>>])

(* Faulty variants of the append: the area goes to the station inserted last; *)
(* the lowercased form is stored.                                            *)
append_area_to_last(m, k, a) ==
  [i \in 1..Len(m) |-> IF i = Len(m) THEN [m[i] EXCEPT !.areas = Append(@, a)] ELSE m[i]]

append_area_lowercased(m, k, a) ==
  [i \in 1..Len(m) |-> IF m[i].ps = k THEN [m[i] EXCEPT !.areas = Append(@, lower(a))] ELSE m[i]]

(* mapping[k].append(a) *)
append_area(m, k, a) ==
  [i \in 1..Len(m) |-> IF m[i].ps = k THEN [m[i] EXCEPT !.areas = Append(@, a)] ELSE m[i]]

---------------------------------------------------------------------------
(* The body of the loop of build_mapping *)

(* Faulty variant: any text, blank text too, names a station *)
is_ps_name_any_text(ps_name) == isinstance_str(ps_name)

(* isinstance(ps_name, str) and ps_name.strip() *)
is_ps_name(ps_name) == isinstance_str(ps_name) /\ strip(ps_name.s) # <<>>

(* Faulty variant: the name is kept as written *)
ps_name_as_written(ps_name) == ps_name.s

(* ps_name_clean = ps_name.strip() *)
ps_name_clean(ps_name) == strip(ps_name.s)

(* not current_ps: None and "" are both false *)
no_current_ps(cur) == cur.t = "none" \/ cur.s = <<>>

(* Faulty variant: the type of the area cell is not looked at *)
area_any_value(area) == TRUE

(* isinstance(area, str) *)
area_is_text(area) == isinstance_str(area)

(* area_clean = area.strip() *)
area_clean(area) == strip(area.s)

(* existing_norm = {a.strip().lower() for a in mapping[current_ps]} *)
existing_norm(areas) == {lower(strip(areas[i])) : i \in 1..Len(areas)}

(* Faulty variant: the comparison key keeps the case *)
norm_keeps_case(ac) == ac

(* norm = area_clean.lower() *)
norm(ac) == lower(ac)

Ok(m, cur) == [mapping |-> m, current_ps |-> cur, err |-> "none"]

Raise(m, cur, e) == [mapping |-> m, current_ps |-> cur, err |-> e]

(* One iteration: the state after the row, or the exception it raises.  The  *)
(* unpacking raises ValueError unless the row has five cells, .strip() on a  *)
(* value that is no str raises AttributeError, mapping[k] on an absent key   *)
(* raises KeyError.                                                          *)
scan_row(m, cur, row) ==
  IF Len(row) # NumCols THEN Raise(m, cur, "ValueError")
  ELSE
    LET ps_name == row[4]
        area    == row[5]
        cur1    == IF is_ps_name(ps_name) THEN Str(ps_name_clean(ps_name)) ELSE cur
        m1      == IF is_ps_name(ps_name) THEN setdefault(m, cur1.s) ELSE m
    IN  IF no_current_ps(cur1) THEN Ok(m1, cur1)
        ELSE IF ~area_is_text(area) THEN Ok(m1, cur1)
        ELSE IF ~isinstance_str(area) THEN Raise(m1, cur1, "AttributeError")
        ELSE IF area_clean(area) = <<>> THEN Ok(m1, cur1)
        ELSE IF ~HasKey(m1, cur1.s) THEN Raise(m1, cur1, "KeyError")
        ELSE IF norm(area_clean(area)) \notin existing_norm(Get(m1, cur1.s))
             THEN Ok(append_area(m1, cur1.s, area_clean(area)), cur1)
             ELSE Ok(m1, cur1)

(* for row in data_rows[1:] : the number of leading rows the loop leaves out *)
HeaderRows == 1

RECURSIVE scan_rows(_, _, _)
scan_rows(m, cur, rows) ==
  IF rows = <<>> THEN Ok(m, cur)
  ELSE LET r == scan_row(m, cur, Head(rows))
       IN  IF r.err # "none" THEN r ELSE scan_rows(r.mapping, r.current_ps, Tail(rows))

(* Faulty variant: the header row is scanned as data *)
after_load_with_header(rows) == scan_rows(<<>>, None, rows)

(* What the loop has done once the sheet's first rows have been loaded *)
after_load(rows) ==
  scan_rows(<<>>, None, SubSeq(rows, HeaderRows + 1, Len(rows)))

---------------------------------------------------------------------------
(* The script *)

(* Faulty variant: the exception is swallowed and the run goes on *)
on_error_swallowed(next_pc) == next_pc

(* No step of the script is wrapped in try/except: an exception ends the run *)
on_error(next_pc) == "crashed"

Init ==
  /\ pc = "start"
  /\ data_rows = <<>>
  /\ mapping = <<>>
  /\ current_ps = None
  /\ raised = "none"
  /\ mapping_json = "untouched"
  /\ mapping_js = "untouched"
  /\ printed = FALSE

(* openpyxl.load_workbook and list(sh.iter_rows(min_row=2)) succeed: the     *)
(* sheet is empty below the title row, or starts with the header row.        *)
LoadWorkbook ==
  /\ pc = "start"
  /\ \E rows \in {<<>>, <<HeaderRow>>} :
       LET r == after_load(rows)
       IN  /\ data_rows' = rows
           /\ mapping' = r.mapping
           /\ current_ps' = r.current_ps
           /\ raised' = r.err
           /\ pc' = IF r.err = "none" THEN "scan" ELSE on_error("scan")
  /\ UNCHANGED <<mapping_json, mapping_js, printed>>

(* The workbook is missing or unreadable *)
LoadWorkbookFails ==
  /\ pc = "start"
  /\ raised' = "load"
  /\ pc' = on_error("scan")
  /\ UNCHANGED <<data_rows, mapping, current_ps, mapping_json, mapping_js, printed>>

(* The loop takes the next row of the sheet *)
ScanRow ==
  /\ pc = "scan"
  /\ Len(data_rows) >= 1
  /\ Len(data_rows) < MaxRows + 1
  /\ \E row \in Rows :
       LET r == scan_row(mapping, current_ps, row)
       IN  /\ data_rows' = Append(data_rows, row)
           /\ mapping' = r.mapping
           /\ current_ps' = r.current_ps
           /\ raised' = r.err
           /\ pc' = IF r.err = "none" THEN "scan" ELSE on_error("scan")
  /\ UNCHANGED <<mapping_json, mapping_js, printed>>

(* No row is left: return mapping *)
Return ==
  /\ pc = "scan"
  /\ pc' = "built"
  /\ UNCHANGED <<data_rows, mapping, current_ps, raised, mapping_json, mapping_js, printed>>

write_json ==
  /\ pc = "built"
  /\ mapping_json' = "written"
  /\ pc' = "json_done"
  /\ UNCHANGED <<data_rows, mapping, current_ps, raised, mapping_js, printed>>

(* path.write_text raises: the file was not opened, or was left incomplete *)
write_json_fails ==
  /\ pc = "built"
  /\ mapping_json' \in {"untouched", "partial"}
  /\ raised' = "write_json"
  /\ pc' = on_error("json_done")
  /\ UNCHANGED <<data_rows, mapping, current_ps, mapping_js, printed>>

write_mapping_js ==
  /\ pc = "json_done"
  /\ mapping_js' = "written"
  /\ pc' = "js_done"
  /\ UNCHANGED <<data_rows, mapping, current_ps, raised, mapping_json, printed>>

write_mapping_js_fails ==
  /\ pc = "json_done"
  /\ mapping_js' \in {"untouched", "partial"}
  /\ raised' = "write_mapping_js"
  /\ pc' = on_error("js_done")
  /\ UNCHANGED <<data_rows, mapping, current_ps, mapping_json, printed>>

print_mapping ==
  /\ pc = "js_done"
  /\ printed' = TRUE
  /\ pc' = "done"
  /\ UNCHANGED <<data_rows, mapping, current_ps, raised, mapping_json, mapping_js>>

Next ==
  \/ LoadWorkbook
  \/ LoadWorkbookFails
  \/ ScanRow
  \/ Return
  \/ write_json
  \/ write_json_fails
  \/ write_mapping_js
  \/ write_mapping_js_fails
  \/ print_mapping

Spec == Init /\ [][Next]_vars

---------------------------------------------------------------------------
(* What the rows say, stated from the sheet alone *)

Min(S) == CHOOSE x \in S : \A y \in S : x <= y

Max(S) == CHOOSE x \in S : \A y \in S : x >= y

(* The cell holds text with at least one character that is not whitespace *)
HasText(c) == c.t = "str" /\ \E i \in 1..Len(c.s) : ~IsSpace(c.s[i])

(* The text between the first and the last character that is not whitespace *)
Trimmed(s) ==
  LET I == {i \in 1..Len(s) : ~IsSpace(s[i])}
  IN  IF I = {} THEN <<>> ELSE SubSeq(s, Min(I), Max(I))

Folded(s) == lower(Trimmed(s))

(* The data rows the loop has processed: every row after the header row *)
DataIdx(rows) == 2..Len(rows)

StationName(rows, i) == Trimmed(rows[i][4].s)

AreaName(rows, i) == Trimmed(rows[i][5].s)

(* The station of row i: the name in the nearest row at or before it that    *)
(* names a station, <<>> when there is none.                                *)
StationOfRow(rows, i) ==
  LET J == {j \in 2..i : HasText(rows[j][4])}
  IN  IF J = {} THEN <<>> ELSE StationName(rows, Max(J))

(* The rows that bring an area to station k *)
RowsOf(rows, k) ==
  {i \in DataIdx(rows) : HasText(rows[i][5]) /\ StationOfRow(rows, i) = k}

StationNames(rows) == {StationName(rows, i) : i \in {j \in DataIdx(rows) : HasText(rows[j][4])}}

FirstRowNaming(rows, k) ==
  Min({i \in DataIdx(rows) : HasText(rows[i][4]) /\ StationName(rows, i) = k})

(* build_mapping is scanning, or has returned the mapping and the script has *)
(* not yet gone on                                                          *)
InBuildMapping == pc \in {"scan", "built"}

IsPrefix(s, t) == Len(s) <= Len(t) /\ SubSeq(t, 1, Len(s)) = s

LastRow == data_rows[Len(data_rows)]

---------------------------------------------------------------------------
(* C1: at every point of the scan and in the returned mapping, no station's *)
(* list holds two entries whose trimmed, lowercased forms are equal.        *)
C1_NoDuplicateAreas ==
  \A e \in 1..Len(mapping) :
    \A i, j \in 1..Len(mapping[e].areas) :
      i < j => Folded(mapping[e].areas[i]) # Folded(mapping[e].areas[j])

(* Two rows of one station whose areas differ as written and are equal      *)
(* once trimmed and lowercased have been processed.                         *)
C1_Witness ==
  /\ pc = "built"
  /\ \E i, j \in DataIdx(data_rows) :
       /\ i < j
       /\ HasText(data_rows[i][5]) /\ HasText(data_rows[j][5])
       /\ StationOfRow(data_rows, i) # <<>>
       /\ StationOfRow(data_rows, i) = StationOfRow(data_rows, j)
       /\ data_rows[i][5] # data_rows[j][5]
       /\ Folded(data_rows[i][5].s) = Folded(data_rows[j][5].s)

(* C2: build_mapping raises nothing, whatever the rows hold: a row whose    *)
(* station or area cell is empty, blank or not text is passed over and the  *)
(* scan goes on; the only failures of a run are those of the workbook load  *)
(* and of the two writes.                                                   *)
C2_ScanNeverRaises ==
  /\ raised \notin {"ValueError", "AttributeError", "KeyError"}
  /\ pc = "crashed" => raised \in {"load", "write_json", "write_mapping_js"}

(* The mapping was returned after rows with a number in the station cell,   *)
(* a blank station cell, and a number and a blank in the area cell of rows  *)
(* that have a current station.                                             *)
C2_Witness ==
  /\ pc = "built"
  /\ \E i, j, k \in DataIdx(data_rows) :
       /\ i < j /\ j < k
       /\ HasText(data_rows[i][4]) /\ data_rows[i][5] = Num
       /\ data_rows[j][4] = Str(<<" ">>) /\ data_rows[j][5] = Str(<<" ">>)
       /\ data_rows[k][4] = Num

(* C3: during the scan and in the mapping returned, the keys are the station *)
(* names of the data rows, each once, in the order of their first rows (the  *)
(* header row left out); the entries of a station are the areas of its rows, *)
(* in the order of their first rows.                                         *)
C3_FirstOccurrenceOrder ==
  InBuildMapping =>
    /\ {mapping[e].ps : e \in 1..Len(mapping)} = StationNames(data_rows)
    /\ \A a, b \in 1..Len(mapping) :
         a < b => /\ mapping[a].ps # mapping[b].ps
                  /\ FirstRowNaming(data_rows, mapping[a].ps)
                       < FirstRowNaming(data_rows, mapping[b].ps)
    /\ \A e \in 1..Len(mapping) :
         LET L == mapping[e].areas
             R == RowsOf(data_rows, mapping[e].ps)
             first == [a \in 1..Len(L) |->
                        Min({i \in R : Folded(data_rows[i][5].s) = Folded(L[a])})]
         IN  /\ \A i \in R :
                  \E a \in 1..Len(L) : Folded(L[a]) = Folded(data_rows[i][5].s)
             /\ \A a \in 1..Len(L) :
                  \E i \in R : Folded(data_rows[i][5].s) = Folded(L[a])
             /\ \A a, b \in 1..Len(L) : a < b => first[a] < first[b]

(* A station was named, another one after it, and the first one again; a    *)
(* station holds two areas.                                                 *)
C3_Witness ==
  /\ pc = "built"
  /\ \E i, j, k \in DataIdx(data_rows) :
       /\ i < j /\ j < k
       /\ HasText(data_rows[i][4]) /\ HasText(data_rows[j][4]) /\ HasText(data_rows[k][4])
       /\ StationName(data_rows, i) # StationName(data_rows, j)
       /\ StationName(data_rows, i) = StationName(data_rows, k)
  /\ \E e \in 1..Len(mapping) : Len(mapping[e].areas) >= 2

(* C4: every key is a non-empty text that neither starts nor ends with      *)
(* whitespace, and is the trimmed station cell of a data row.               *)
C4_KeysTrimmedNonEmpty ==
  \A e \in 1..Len(mapping) :
    LET k == mapping[e].ps
    IN  /\ k # <<>>
        /\ ~IsSpace(k[1])
        /\ ~IsSpace(k[Len(k)])
        /\ \E i \in DataIdx(data_rows) :
             data_rows[i][4].t = "str" /\ StationName(data_rows, i) = k

(* A key came from a cell written with whitespace around the name, and a    *)
(* row with a blank station cell has been processed.                        *)
C4_Witness ==
  /\ \E e \in 1..Len(mapping) : \E i \in DataIdx(data_rows) :
       /\ data_rows[i][4].t = "str"
       /\ StationName(data_rows, i) = mapping[e].ps
       /\ data_rows[i][4].s # mapping[e].ps
  /\ \E i \in DataIdx(data_rows) : data_rows[i][4] = Str(<<" ">>)

(* C5: during the scan and in the mapping returned, the name of every        *)
(* processed row that names a station (text that is not empty once trimmed)  *)
(* is a key, so it stays one to the end; a station none of whose rows holds  *)
(* an area is a key with an empty list.                                      *)
C5_StationPresentOnceSeen ==
  InBuildMapping =>
    /\ \A i \in DataIdx(data_rows) :
         HasText(data_rows[i][4]) => HasKey(mapping, StationName(data_rows, i))
    /\ \A k \in StationNames(data_rows) :
         RowsOf(data_rows, k) = {} => HasKey(mapping, k) /\ Get(mapping, k) = <<>>

(* The mapping was returned with a station that has no area, named before  *)
(* a station that has one, its rows holding an empty, a blank or a number   *)
(* area cell.                                                               *)
C5_Witness ==
  /\ pc = "built"
  /\ Len(mapping) >= 2
  /\ mapping[1].areas = <<>>
  /\ mapping[2].areas # <<>>
  /\ \E i \in DataIdx(data_rows) :
       /\ StationOfRow(data_rows, i) = mapping[1].ps
       /\ ~HasText(data_rows[i][4])
       /\ data_rows[i][5] # None

(* C6: during the scan and in the mapping returned, while no data row has    *)
(* named a station the mapping is empty, whatever the area cells hold, and   *)
(* no entry of the mapping comes from a row that precedes the first station  *)
(* name: every entry is the area of a row of its own station.                *)
C6_NothingBeforeFirstStation ==
  InBuildMapping =>
    /\ (\A i \in DataIdx(data_rows) : ~HasText(data_rows[i][4])) => mapping = <<>>
    /\ \A e \in 1..Len(mapping) :
         LET R == RowsOf(data_rows, mapping[e].ps)
         IN  \A a \in 1..Len(mapping[e].areas) :
               \E i \in R : AreaName(data_rows, i) = mapping[e].areas[a]

(* A row with an area and no station before it was followed by a station    *)
(* row; the area of the early row is in no list.                            *)
C6_Witness ==
  /\ pc = "built"
  /\ mapping # <<>>
  /\ \E i \in DataIdx(data_rows) :
       /\ HasText(data_rows[i][5])
       /\ StationOfRow(data_rows, i) = <<>>
       /\ \A e \in 1..Len(mapping) : \A a \in 1..Len(mapping[e].areas) :
            Folded(mapping[e].areas[a]) # Folded(data_rows[i][5].s)
  /\ \E e \in 1..Len(mapping) : mapping[e].areas # <<>>

(* C7: during the scan and in the mapping returned, for every row that       *)
(* brings an area to a station, the station's list holds exactly one entry   *)
(* equal to it once lowercased, and that entry is the trimmed text, as       *)
(* written, of the first row of the station with that area.                  *)
C7_FirstSpellingKept ==
  InBuildMapping =>
    \A e \in 1..Len(mapping) :
      LET L == mapping[e].areas
          R == RowsOf(data_rows, mapping[e].ps)
      IN  \A i \in R :
            LET same == {a \in 1..Len(L) : lower(L[a]) = Folded(data_rows[i][5].s)}
                f    == Min({j \in R : Folded(data_rows[j][5].s) = Folded(data_rows[i][5].s)})
            IN  /\ Cardinality(same) = 1
                /\ \A a \in same : L[a] = AreaName(data_rows, f)

(* A station has two rows whose areas are equal once trimmed and lowercased *)
(* and differ in case once trimmed.                                         *)
C7_Witness ==
  /\ pc = "built"
  /\ \E i, j \in DataIdx(data_rows) :
       /\ i < j
       /\ HasText(data_rows[i][5]) /\ HasText(data_rows[j][5])
       /\ StationOfRow(data_rows, i) # <<>>
       /\ StationOfRow(data_rows, i) = StationOfRow(data_rows, j)
       /\ AreaName(data_rows, i) # AreaName(data_rows, j)
       /\ Folded(data_rows[i][5].s) = Folded(data_rows[j][5].s)
       /\ data_rows[i][5].s # AreaName(data_rows, i)

(* C8: the steps happen in the order load, build, mapping.json, mapping.js, *)
(* console, and a failed step ends the run: after a failed load no file is  *)
(* touched and nothing is printed, after a failed write of mapping.json     *)
(* mapping.js is not touched and nothing is printed, after a failed write   *)
(* of mapping.js nothing is printed.                                        *)
C8_FailureEndsRun ==
  /\ raised # "none" => pc = "crashed"
  /\ raised = "load" =>
       mapping_json = "untouched" /\ mapping_js = "untouched" /\ ~printed
  /\ raised = "write_json" => mapping_js = "untouched" /\ ~printed
  /\ raised = "write_mapping_js" => ~printed
  /\ pc \in {"start", "scan", "built"} =>
       mapping_json = "untouched" /\ mapping_js = "untouched" /\ ~printed
  /\ mapping_js # "untouched" => mapping_json = "written"
  /\ printed => mapping_js = "written" /\ mapping_json = "written"

(* The write of mapping.json failed on a mapping that holds areas.          *)
C8_Witness ==
  /\ raised = "write_json"
  /\ mapping_json = "partial"
  /\ \E e \in 1..Len(mapping) : mapping[e].areas # <<>>

(* C9: when a data row with an area is processed and some row at or before  *)
(* it names a station, the list of the station named by the nearest such    *)
(* row holds, after the row, an entry equal to the trimmed area once        *)
(* lowercased, and the list of every other station is as it was before.     *)
C9_AttributedToNearestStation ==
  [][ (Len(data_rows) >= 1 /\ Len(data_rows') = Len(data_rows) + 1
        /\ HasText(data_rows'[Len(data_rows')][5])
        /\ StationOfRow(data_rows', Len(data_rows')) # <<>>)
      =>
      LET n == Len(data_rows')
          k == StationOfRow(data_rows', n)
      IN  /\ HasKey(mapping', k)
          /\ \E a \in 1..Len(Get(mapping', k)) :
               lower(Get(mapping', k)[a]) = Folded(data_rows'[n][5].s)
          /\ \A e \in 1..Len(mapping') :
               mapping'[e].ps # k =>
                 /\ HasKey(mapping, mapping'[e].ps)
                 /\ Get(mapping, mapping'[e].ps) = mapping'[e].areas
          /\ \A e \in 1..Len(mapping) :
               mapping[e].ps # k =>
                 /\ HasKey(mapping', mapping[e].ps)
                 /\ Get(mapping', mapping[e].ps) = mapping[e].areas
    ]_vars

(* The last row has no station cell and a new area; the station named by    *)
(* the nearest row before it is not the first station of the mapping.       *)
C9_Witness ==
  /\ Len(data_rows) >= 3
  /\ LastRow[4] = None
  /\ HasText(LastRow[5])
  /\ Len(mapping) >= 2
  /\ StationOfRow(data_rows, Len(data_rows)) = mapping[2].ps
  /\ mapping[1].areas # <<>>
  /\ mapping[2].areas = <<AreaName(data_rows, Len(data_rows))>>

(* C10: a step of the scan keeps the keys and their order and adds at most  *)
(* one key, at the end; it keeps every list as a prefix of the new one and  *)
(* adds at most one area, at the end of the list of the current station.    *)
C10_AppendOnly ==
  [][ /\ Len(mapping') \in {Len(mapping), Len(mapping) + 1}
      /\ \A e \in 1..Len(mapping) :
           /\ mapping'[e].ps = mapping[e].ps
           /\ IsPrefix(mapping[e].areas, mapping'[e].areas)
           /\ Len(mapping'[e].areas) <= Len(mapping[e].areas) + 1
      /\ \A e \in 1..Len(mapping') :
           e > Len(mapping) => Len(mapping'[e].areas) <= 1
      /\ Cardinality({e \in 1..Len(mapping') :
                        IF e <= Len(mapping) THEN mapping'[e].areas # mapping[e].areas
                                             ELSE mapping'[e].areas # <<>>}) <= 1
      /\ \A e \in 1..Len(mapping') :
           (IF e <= Len(mapping) THEN mapping'[e].areas # mapping[e].areas
                                 ELSE mapping'[e].areas # <<>>)
           => current_ps' = Str(mapping'[e].ps)
    ]_vars

(* The last row named a station that was already a key with areas, after    *)
(* another station had been named; the list is as it was.                   *)
C10_Witness ==
  /\ Len(data_rows) >= 4
  /\ HasText(LastRow[4])
  /\ Len(mapping) >= 2
  /\ mapping[1].ps = StationName(data_rows, Len(data_rows))
  /\ mapping[1].areas # <<>>
  /\ \A i \in RowsOf(data_rows, mapping[1].ps) : i < Len(data_rows)

====
